---- MODULE Spec2Model ----
(***************************************************************************)
(* A model of MolecularEmbeddingService (src/src/service.py): service      *)
(* construction (model load, Redis connection, HNSW index check/creation,  *)
(* sample-data ingestion) and similarity search, run by two service        *)
(* instances against one shared Redis store.                               *)
(*                                                                         *)
(* Every Redis command is one atomic step; the steps of different          *)
(* instances interleave freely.  Every call that can raise (model load,    *)
(* ping, FT.INFO, FT.CREATE, EXISTS, encode, HSET, FT.SEARCH) has its      *)
(* failure as one of its outcomes.                                         *)
(*                                                                         *)
(* A second specification, SpecCalls, makes single calls of the methods    *)
(* of a service that is up: get_molecular_embedding and                    *)
(* _truncate_and_normalize_embedding of the service, and                   *)
(* molecule_similarity_search_pipeline and handle_search of App            *)
(* (src/src/app.py).                                                       *)
(*                                                                         *)
(* Scaling: the eleven supported dimensions 1024..2 are cut down to the    *)
(* two smallest, <<4, 2>>, and vectors have small integer coordinates.  A  *)
(* real-valued vector num / sqrt(den2) is kept exactly as the record       *)
(* [num |-> <<integers>>, den2 |-> positive integer].                      *)
(***************************************************************************)
EXTENDS Integers, Sequences, FiniteSets, TLC

(***************************************************************************)
(* Bounds of the model.                                                    *)
(***************************************************************************)
\* How many times a service process is started (constructed) in all.
MaxStartups == 2
\* How many times the store answers a ping of one startup with "still
\* loading" (BusyLoadingError) at most.
MaxBusyAnswers == 2
\* The longest vector the normalizer is called with, one call at a time.
MaxRawLen == 4
\* Resolution of the store's distance score (a fixed-point number).
ScoreScale == 10000

\* The service processes that share the store.
Instances == {"a", "b"}

(***************************************************************************)
(* State.                                                                  *)
(***************************************************************************)
VARIABLES
    dataset,     \* ISOMER_DESIGN_DATASET, the rows every instance ingests
    encoderDim,  \* how many coordinates the vectors of the model MODEL_NAME have
    index,       \* store: the definition of index molecule_embeddings, or NoIndex
    hashes,      \* store: the hash held under each key
    pc,          \* per instance: the call its constructor is about to make
    startups,    \* how many times a service process has been started
    busy,        \* per instance: pings of this connection step answered "still loading"
    row,         \* per instance: the row __populate_sample_data is at
    mapping,     \* per instance: the mapping assembled for that row
    lastSearch,  \* the find_similar_molecules call just made, and its result
    lastCall,    \* the call of a single method just made, and its result
    \* What has happened, recorded for the properties:
    sawIndex,    \* per instance: FT.INFO found the index in this startup
    failCause,   \* per instance: what made the constructor raise
    outcome,     \* per instance: what became of each row in this startup
    encodes,     \* per instance: model.encode calls made for the row the loop is at
                 \* or, before its EXISTS call, for the row the loop has left
    fullAtStart, \* per instance: every dataset key was stored when ingestion began
    afterIngest, \* per instance: an ingestion had completed when this one began
    ingested,    \* an ingestion run has completed
    writes,      \* per key: HSET commands executed
    created      \* FT.CREATE commands that created the index

vars == <<dataset, encoderDim, lastCall, index, hashes, pc, startups, busy, row, mapping, lastSearch, sawIndex,
          failCause, outcome, encodes, fullAtStart, afterIngest, ingested, writes, created>>

(***************************************************************************)
(* constants.py                                                            *)
(***************************************************************************)
SUPPORTED_EMBEDDING_DIMENSIONS == <<4, 2>>

RECURSIVE SeqMax(_)
SeqMax(s) ==
    IF Len(s) = 1 THEN s[1]
    ELSE LET m == SeqMax(Tail(s)) IN IF s[1] > m THEN s[1] ELSE m

EMBEDDING_DIMENSION == SeqMax(SUPPORTED_EMBEDDING_DIMENSIONS)

HNSW_K == 6

SupportedDims == {SUPPORTED_EMBEDDING_DIMENSIONS[j] : j \in 1..Len(SUPPORTED_EMBEDDING_DIMENSIONS)}

(***************************************************************************)
(* The dataset (ISOMER_DESIGN_DATASET): rows with the columns smiles,      *)
(* name, properties.  "OCC" is another spelling of ethanol, whose          *)
(* canonical SMILES is "CCO".                                              *)
(***************************************************************************)
Row(s, n, p) == [smiles |-> s, name |-> n, properties |-> p]

Datasets ==
    { <<Row("CCO", "Ethanol", "Alcohol"), Row("CC(C)O", "Isopropanol", "Alcohol")>>,
      <<Row("CCO", "Ethanol", "Alcohol"), Row("CCO", "Ethyl alcohol", "Solvent")>>,
      <<Row("OCC", "Ethanol", "Alcohol"), Row("CCO", "Ethanol", "Alcohol")>> }

DatasetSmiles == {"CCO", "OCC", "CC(C)O"}

\* The deployments: the dataset and the size of the model's vectors.  The
\* service takes the model to have EMBEDDING_DIMENSION coordinates; one
\* deployment has a model with fewer.
Deployments ==
    {<<d, EMBEDDING_DIMENSION>> : d \in Datasets}
        \cup {<<<<Row("CCO", "Ethanol", "Alcohol"), Row("CC(C)O", "Isopropanol", "Alcohol")>>,
                EMBEDDING_DIMENSION - 1>>}

(***************************************************************************)
(* Vectors.                                                                *)
(***************************************************************************)
RECURSIVE Dot(_, _)
Dot(u, v) ==
    IF u = <<>> \/ v = <<>> THEN 0
    ELSE Head(u) * Head(v) + Dot(Tail(u), Tail(v))

SumSq(v) == Dot(v, v)

ISqrt(n) == CHOOSE r \in 0..n : r * r <= n /\ (r + 1) * (r + 1) > n

\* The result of a call: a value returned or an exception raised.
Return(v) == [raised |-> FALSE, value |-> v]
Raise(e) == [raised |-> TRUE, value |-> e]

\* MorganFingerprinter.canonicalize_smiles: the canonical form, or None.
None == "None"

canonicalize_smiles(smiles) ==
    CASE smiles = "OCC" -> "CCO"
      [] smiles \in {"CCO", "CC(C)O", "CCCO"} -> smiles
      [] OTHER -> None

\* self.model.encode([smiles])[0]: the raw embedding of a string.
encode(smiles) ==
    CASE smiles = "CCO" -> [num |-> <<3, 4, 12, 0>>, den2 |-> 1]
      [] smiles = "CC(C)O" -> [num |-> <<4, 3, 0, 12>>, den2 |-> 1]
      [] smiles = "CCCO" -> [num |-> <<4, 3, 12, 0>>, den2 |-> 1]
      [] OTHER -> [num |-> <<12, 5, 0, 0>>, den2 |-> 1]

\* A faulty variant: the norm is taken of the whole vector, before the
\* truncation.
normalize_then_truncate(embedding, embed_dim) ==
    LET norms2 == SumSq(embedding.num)
        e == IF embed_dim < Len(embedding.num)
             THEN [embedding EXCEPT !.num = SubSeq(@, 1, embed_dim)]
             ELSE embedding
    IN  IF norms2 = 0 THEN e ELSE [num |-> e.num, den2 |-> norms2]

\* _truncate_and_normalize_embedding.  With e = num / sqrt(den2), the norm
\* of e is sqrt(SumSq(num) / den2); it is zero exactly when SumSq(num) = 0,
\* and e / norm = num / sqrt(SumSq(num)).
truncate_and_normalize_embedding(embedding, embed_dim) ==
    LET e == IF embed_dim < Len(embedding.num)
             THEN [embedding EXCEPT !.num = SubSeq(@, 1, embed_dim)]
             ELSE embedding
        norms2 == SumSq(e.num)
    IN  IF norms2 = 0 THEN e ELSE [num |-> e.num, den2 |-> norms2]

\* What a call of self.model.encode may do: return the embedding of the
\* string, which has as many coordinates as the model has (the model loaded
\* is not checked for its output size: "short" is a vector of
\* EMBEDDING_DIMENSION - 1 coordinates), or raise.
OracleAnswers(size) == {IF size < EMBEDDING_DIMENSION THEN "short" ELSE "vector", "raise"}

model_encode(smiles, answer) ==
    CASE answer = "vector" -> Return(encode(smiles))
      [] answer = "short" ->
            Return([encode(smiles) EXCEPT !.num = SubSeq(@, 1, EMBEDDING_DIMENSION - 1)])
      [] OTHER -> Raise("RuntimeError")

\* A faulty variant: the check of embed_dim is lost.
MolecularEmbeddingCallUnchecked(smiles, embed_dim, answer) ==
    LET canonical == canonicalize_smiles(smiles)
        s == IF canonical = None THEN smiles ELSE canonical
        embedding == model_encode(s, answer)
    IN  [encoded |-> <<s>>,
         result |-> IF embedding.raised THEN embedding
                    ELSE Return(truncate_and_normalize_embedding(embedding.value, embed_dim))]

\* A run of get_molecular_embedding: the strings self.model.encode was
\* called with, in order, and the result (the except clause logs and raises
\* the exception again).  `answer` is what model.encode does when called.
MolecularEmbeddingCall(smiles, embed_dim, answer) ==
    IF embed_dim <= 0
    THEN [encoded |-> <<>>, result |-> Raise("ValueError")]
    ELSE LET canonical == canonicalize_smiles(smiles)
             s == IF canonical = None THEN smiles ELSE canonical
             embedding == model_encode(s, answer)
         IN  [encoded |-> <<s>>,
              result |-> IF embedding.raised THEN embedding
                         ELSE Return(truncate_and_normalize_embedding(embedding.value, embed_dim))]

\* get_molecular_embedding: what the call returns or raises.
get_molecular_embedding(smiles, embed_dim, answer) ==
    MolecularEmbeddingCall(smiles, embed_dim, answer).result

\* ndarray.tobytes(): the packed coordinates, as the store receives them.
tobytes(e) == [blob |-> e.num, scale2 |-> e.den2]

embedding_field_name(dim) == "embedding_" \o ToString(dim)

molecule_index_prefix(smiles) == "mol:" \o smiles

Keys == {molecule_index_prefix(s) : s \in DatasetSmiles}

(***************************************************************************)
(* The Redis store: hashes by key, and the search index.                   *)
(***************************************************************************)
\* A key that holds nothing (Redis keeps no empty hash).
NoHash == <<>>
\* No index of that name.
NoIndex == [absent |-> TRUE]

Merge(old, new) ==
    [f \in DOMAIN old \cup DOMAIN new |-> IF f \in DOMAIN new THEN new[f] ELSE old[f]]

\* EXISTS key
Exists(hs, key) == hs[key] # NoHash

\* HSET key field value [field value ...]: one command sets all the fields.
HSet(hs, key, fields) == [hs EXCEPT ![key] = Merge(@, fields)]

\* FT.INFO index
FtInfo(idx) == IF idx = NoIndex THEN Raise("ResponseError: Unknown index name") ELSE Return(idx)

\* FT.CREATE index: rejected when the index exists.
FtCreate(idx, definition) ==
    IF idx # NoIndex THEN Raise("ResponseError: Index already exists")
    ELSE Return(definition)

\* The score of a stored vector for a query vector: the cosine distance
\* 1 - cos, as a fixed-point number.
CosineDistance(q, v) ==
    LET d == ISqrt(SumSq(q.blob)) * ISqrt(SumSq(v.blob))
    IN  IF d = 0 THEN ScoreScale
        ELSE ScoreScale - ((ScoreScale * Dot(q.blob, v.blob)) \div d)

\* A number as the store sends it (text), and Python's float() of it.
NumberText(n) == <<"number", n>>
float(t) == t[2]

\* FT.SEARCH index "*=>[KNN k @field $vec AS score]" SORTBY score RETURN ...
\* All the result sets the store may answer with.  HNSW is approximate: any
\* min(k, n) of the n indexed vectors may come back; they are sorted by the
\* sort field, ascending unless the query says otherwise.
FtSearch(idx, hs, query, vec) ==
    IF idx = NoIndex THEN {Raise("ResponseError: no such index")}
    ELSE IF query.field \notin DOMAIN idx.vectors
    THEN {Raise("ResponseError: unknown field")}
    ELSE IF query.k <= 0 THEN {Raise("ResponseError: syntax error")}
    ELSE IF Len(vec.blob) # idx.vectors[query.field]
    THEN {Raise("ResponseError: query vector blob size does not match")}
    ELSE
    LET indexed == {key \in DOMAIN hs :
                        /\ query.field \in DOMAIN hs[key]
                        /\ Len(hs[key][query.field].blob) = idx.vectors[query.field]}
        n == Cardinality(indexed)
        m == IF query.k < n THEN query.k ELSE n
        score(key) == CosineDistance(vec, hs[key][query.field])
        InOrder(x, y) == IF query.asc THEN score(x) <= score(y) ELSE score(x) >= score(y)
        rankings == {r \in [1..m -> indexed] :
                        /\ \A a, b \in 1..m : a < b => r[a] # r[b] /\ InOrder(r[a], r[b])}
        doc(key) == [id |-> key,
                     smiles |-> hs[key].smiles,
                     name |-> hs[key].name,
                     properties |-> hs[key].properties,
                     score |-> NumberText(score(key))]
    IN  {Return([j \in 1..m |-> doc(r[j])]) : r \in rankings}

(***************************************************************************)
(* MolecularEmbeddingService                                               *)
(***************************************************************************)
\* The schema __create_hnsw_index builds: the smiles text field, one HNSW
\* vector field per supported dimension, over the hashes with prefix "mol:".
IndexSchema ==
    [text |-> "smiles",
     vectors |-> [f \in {embedding_field_name(d) : d \in SupportedDims} |->
                    CHOOSE d \in SupportedDims : embedding_field_name(d) = f],
     prefix |-> molecule_index_prefix("")]

\* A faulty variant: the early return is lost: create_index is always called.
AfterInfoAlwaysCreate(info) == "index_create"

\* __create_hnsw_index, after FT.INFO: return when the index exists.
AfterInfo(info) == IF info.raised THEN "index_create" ELSE "populate"

\* A faulty variant: an exception of create_index is logged and swallowed.
AfterCreateSwallow(res) == "populate"

\* __create_hnsw_index, what becomes of the outcome of create_index:
\* any exception is logged and raised again.
AfterCreate(res) == IF res.raised THEN "raise" ELSE "populate"

\* A faulty variant: the embedding is computed anew (model.encode is
\* called) for each supported dimension.
EmbeddingCachePerDimension(smiles, answer) ==
    LET call == MolecularEmbeddingCall(smiles, EMBEDDING_DIMENSION, answer)
    IN  [encoded |-> [j \in 1..Len(SUPPORTED_EMBEDDING_DIMENSIONS) |-> call.encoded[1]],
         result |-> call.result]

\* __populate_sample_data: `embedding_cache = self.get_molecular_embedding(
\* row["smiles"], EMBEDDING_DIMENSION)`: the one call of the row, with the
\* strings model.encode was called with.
EmbeddingCacheCall(smiles, answer) ==
    MolecularEmbeddingCall(smiles, EMBEDDING_DIMENSION, answer)

\* A faulty variant: only the embedding of the native dimension is stored.
MappingNativeOnly(rowdict, embedding_cache) ==
    Merge([f \in {embedding_field_name(EMBEDDING_DIMENSION)} |->
              tobytes(truncate_and_normalize_embedding(embedding_cache, EMBEDDING_DIMENSION))],
          rowdict)

\* __populate_sample_data: the mapping written for a row.
Mapping(rowdict, embedding_cache) ==
    LET embeddings ==
            [f \in {embedding_field_name(d) : d \in SupportedDims} |->
                tobytes(truncate_and_normalize_embedding(
                    embedding_cache,
                    CHOOSE d \in SupportedDims : embedding_field_name(d) = f))]
    IN  Merge(embeddings, rowdict)

\* A faulty variant: the existence check is lost: no record is skipped.
SkipNever(hs, key) == FALSE

\* __populate_sample_data: `if self.redis_client.exists(key): continue`
SkipRecord(hs, key) == Exists(hs, key)

\* A faulty variant: an exception in the loop body ends the loop.
ExceptBreak(r) == Len(dataset) + 1

\* __populate_sample_data: the row the loop goes to after an exception in
\* the loop body (`except Exception: ... continue`).
ExceptContinue(r) == r + 1

\* A faulty variant: the results are sorted by descending score.
KnnQueryDescending(k, embed_dim) ==
    [k |-> k,
     field |-> embedding_field_name(embed_dim),
     sort_by |-> "score",
     asc |-> FALSE,
     return_fields |-> <<"smiles", "name", "properties", "score">>,
     dialect |-> 2]

\* The Query find_similar_molecules builds.
KnnQuery(k, embed_dim) ==
    [k |-> k,
     field |-> embedding_field_name(embed_dim),
     sort_by |-> "score",
     asc |-> TRUE,
     return_fields |-> <<"smiles", "name", "properties", "score">>,
     dialect |-> 2]

\* The neighbors find_similar_molecules builds from the documents found.
Neighbors(docs) ==
    [j \in 1..Len(docs) |->
        [smiles |-> docs[j].smiles,
         name |-> docs[j].name,
         properties |-> docs[j].properties,
         score |-> float(docs[j].score)]]

\* A faulty variant: no try/except: an exception of the search propagates.
find_similar_molecules_unguarded(results) ==
    IF results.raised THEN results ELSE Return(Neighbors(results.value))

\* A faulty variant: only a lost connection is caught: a ResponseError propagates.
find_similar_molecules_connection_only(results) ==
    IF results.raised
    THEN IF results.value = "ConnectionError" THEN Return(<<>>) ELSE results
    ELSE Return(Neighbors(results.value))

\* A faulty variant: the except clause raises an error of its own.
find_similar_molecules_search_error(results) ==
    IF results.raised THEN Raise("SearchError") ELSE Return(Neighbors(results.value))

\* find_similar_molecules, from the outcome of the store's search on.
find_similar_molecules(results) ==
    IF results.raised THEN Return(<<>>) ELSE Return(Neighbors(results.value))

NoMapping == <<>>
NoSearch == [called |-> FALSE]
NoCall == [fn |-> "none"]

Rows == 1..Len(dataset)
KeyOf(r) == molecule_index_prefix(dataset[r]["smiles"])
DatasetKeys == {KeyOf(r) : r \in Rows}

\* The inputs of the search requests: the molecule and the dimension the
\* query embedding is made for, and the dimension searched.  Dimension 3
\* is not a supported one.
SearchInputs ==
    { <<"CCCO", 4, 4>>, <<"CCCO", 2, 2>>, <<"CCO", 2, 2>>, <<"CCCO", 3, 3>>, <<"CCCO", 4, 2>> }
QueryKs == {1, 2, HNSW_K}

Init ==
    /\ \E deployment \in Deployments :
            dataset = deployment[1] /\ encoderDim = deployment[2]
    /\ lastCall = NoCall
    /\ index = NoIndex
    /\ hashes = [key \in Keys |-> NoHash]
    /\ pc = [i \in Instances |-> "down"]
    /\ startups = 0
    /\ busy = [i \in Instances |-> 0]
    /\ row = [i \in Instances |-> 0]
    /\ mapping = [i \in Instances |-> NoMapping]
    /\ lastSearch = NoSearch
    /\ sawIndex = [i \in Instances |-> FALSE]
    /\ failCause = [i \in Instances |-> "none"]
    /\ outcome = [i \in Instances |-> <<>>]
    /\ encodes = [i \in Instances |-> 0]
    /\ fullAtStart = [i \in Instances |-> FALSE]
    /\ afterIngest = [i \in Instances |-> FALSE]
    /\ ingested = FALSE
    /\ writes = [key \in Keys |-> 0]
    /\ created = 0

storeVars == <<index, hashes, writes, created>>
ingestVars == <<row, mapping, outcome, encodes, fullAtStart, afterIngest, ingested>>

\* The constructor raises: the process ends without a service.
Fail(i, cause) ==
    /\ pc' = [pc EXCEPT ![i] = "failed"]
    /\ failCause' = [failCause EXCEPT ![i] = cause]

\* __populate_sample_data begins (or, with no rows, ends at once).
BeginPopulate(i) ==
    /\ pc' = [pc EXCEPT ![i] = "populate_exists"]
    /\ row' = [row EXCEPT ![i] = 1]
    /\ outcome' = [outcome EXCEPT ![i] = [r \in Rows |-> "pending"]]
    /\ encodes' = [encodes EXCEPT ![i] = 0]
    /\ fullAtStart' = [fullAtStart EXCEPT ![i] = \A key \in DatasetKeys : Exists(hashes, key)]
    /\ afterIngest' = [afterIngest EXCEPT ![i] = ingested]
    /\ mapping' = [mapping EXCEPT ![i] = NoMapping]
    /\ UNCHANGED ingested

\* The loop of __populate_sample_data goes on with row `next`, the row
\* it leaves having ended as `what`; after the last row the constructor
\* returns.
GoToRow(i, next, what) ==
    /\ outcome' = [outcome EXCEPT ![i][row[i]] = what]
    /\ mapping' = [mapping EXCEPT ![i] = NoMapping]
    /\ IF next > Len(dataset)
       THEN /\ pc' = [pc EXCEPT ![i] = "ready"]
            /\ row' = [row EXCEPT ![i] = 0]
            /\ ingested' = TRUE
       ELSE /\ pc' = [pc EXCEPT ![i] = "populate_exists"]
            /\ row' = [row EXCEPT ![i] = next]
            /\ UNCHANGED ingested
    /\ UNCHANGED <<fullAtStart, afterIngest>>

(***************************************************************************)
(* Actions.                                                                *)
(***************************************************************************)
\* A service process is started: MolecularEmbeddingService() is called.
Start(i) ==
    /\ pc[i] \in {"down", "ready", "failed"}
    /\ startups < MaxStartups
    /\ startups' = startups + 1
    /\ pc' = [pc EXCEPT ![i] = "model"]
    /\ sawIndex' = [sawIndex EXCEPT ![i] = FALSE]
    /\ failCause' = [failCause EXCEPT ![i] = "none"]
    /\ outcome' = [outcome EXCEPT ![i] = <<>>]
    /\ encodes' = [encodes EXCEPT ![i] = 0]
    /\ fullAtStart' = [fullAtStart EXCEPT ![i] = FALSE]
    /\ afterIngest' = [afterIngest EXCEPT ![i] = FALSE]
    /\ UNCHANGED <<dataset, encoderDim, lastCall, storeVars, busy, row, mapping, ingested>>
    /\ lastSearch' = NoSearch

\* _initialize_model
InitializeModel(i) ==
    /\ pc[i] = "model"
    /\ \E loaded \in BOOLEAN :
        IF loaded
        THEN pc' = [pc EXCEPT ![i] = "redis"] /\ UNCHANGED failCause
        ELSE Fail(i, "model")
    /\ UNCHANGED <<dataset, encoderDim, lastCall, storeVars, ingestVars, startups, busy, sawIndex>>
    /\ lastSearch' = NoSearch

\* _initialize_redis, `except redis.exceptions.BusyLoadingError`: sleep
\* and ping again, whatever the number of pings made so far.
AfterBusyLoading(retries) == "redis"

\* _initialize_redis: ping until the store answers; BusyLoadingError is
\* retried, any other exception propagates.
InitializeRedis(i) ==
    /\ pc[i] = "redis"
    /\ \E ping \in {"PONG", "BusyLoadingError", "ConnectionError"} :
        CASE ping = "PONG" ->
                /\ pc' = [pc EXCEPT ![i] = "index_info"]
                /\ busy' = [busy EXCEPT ![i] = 0]
                /\ UNCHANGED failCause
          [] ping = "BusyLoadingError" ->
                /\ busy[i] < MaxBusyAnswers
                /\ IF AfterBusyLoading(busy[i] + 1) = "redis"
                   THEN busy' = [busy EXCEPT ![i] = @ + 1] /\ UNCHANGED <<pc, failCause>>
                   ELSE busy' = [busy EXCEPT ![i] = 0] /\ Fail(i, "redis")
          [] OTHER ->
                /\ busy' = [busy EXCEPT ![i] = 0]
                /\ Fail(i, "redis")
    /\ UNCHANGED <<dataset, encoderDim, lastCall, storeVars, ingestVars, startups, sawIndex>>
    /\ lastSearch' = NoSearch

\* __create_hnsw_index, the FT.INFO call: the index exists (return), or
\* ResponseError (go on to create it), or another exception (propagates).
CreateIndexInfo(i) ==
    /\ pc[i] = "index_info"
    /\ \E reached \in BOOLEAN :
        IF ~reached
        THEN Fail(i, "index_info") /\ UNCHANGED <<sawIndex, ingestVars>>
        ELSE LET info == FtInfo(index) IN
             /\ sawIndex' = [sawIndex EXCEPT ![i] = ~info.raised]
             /\ UNCHANGED failCause
             /\ IF AfterInfo(info) = "populate"
                THEN BeginPopulate(i)
                ELSE pc' = [pc EXCEPT ![i] = "index_create"] /\ UNCHANGED ingestVars
    /\ UNCHANGED <<dataset, encoderDim, lastCall, storeVars, startups, busy>>
    /\ lastSearch' = NoSearch

\* __create_hnsw_index, the create_index call.
CreateIndexCreate(i) ==
    /\ pc[i] = "index_create"
    /\ \E reached \in BOOLEAN :
        IF ~reached
        THEN /\ Fail(i, "index_create")
             /\ UNCHANGED <<index, created, ingestVars>>
        ELSE LET res == FtCreate(index, IndexSchema) IN
             /\ index' = IF res.raised THEN index ELSE res.value
             /\ created' = IF res.raised THEN created ELSE created + 1
             /\ IF AfterCreate(res) = "populate"
                THEN BeginPopulate(i) /\ UNCHANGED failCause
                ELSE /\ Fail(i, IF res.raised THEN "index_exists" ELSE "index_create")
                     /\ UNCHANGED ingestVars
    /\ UNCHANGED <<dataset, encoderDim, lastCall, hashes, writes, startups, busy, sawIndex>>
    /\ lastSearch' = NoSearch

\* __populate_sample_data, the EXISTS call for the row.
PopulateExists(i) ==
    /\ pc[i] = "populate_exists"
    /\ \E reached \in BOOLEAN :
        IF ~reached
        THEN GoToRow(i, ExceptContinue(row[i]), "failed")
        ELSE IF SkipRecord(hashes, KeyOf(row[i]))
        THEN GoToRow(i, row[i] + 1, "skipped")
        ELSE /\ pc' = [pc EXCEPT ![i] = "populate_embed"]
             /\ UNCHANGED <<row, mapping, outcome, fullAtStart, afterIngest, ingested>>
    /\ encodes' = [encodes EXCEPT ![i] = 0]
    /\ UNCHANGED <<dataset, encoderDim, lastCall, storeVars, startups, busy, sawIndex, failCause>>
    /\ lastSearch' = NoSearch

\* __populate_sample_data, get_molecular_embedding and the mapping.
PopulateEmbed(i) ==
    /\ pc[i] = "populate_embed"
    /\ \E answer \in OracleAnswers(encoderDim), normalizeOk \in BOOLEAN :
        LET cache == EmbeddingCacheCall(dataset[row[i]]["smiles"], answer)
            res == cache.result
        IN  /\ encodes' = [encodes EXCEPT ![i] = @ + Len(cache.encoded)]
            /\ IF res.raised \/ ~normalizeOk
               THEN GoToRow(i, ExceptContinue(row[i]), "failed")
               ELSE /\ mapping' = [mapping EXCEPT ![i] = Mapping(dataset[row[i]], res.value)]
                    /\ pc' = [pc EXCEPT ![i] = "populate_hset"]
                    /\ UNCHANGED <<row, outcome, fullAtStart, afterIngest, ingested>>
    /\ UNCHANGED <<dataset, encoderDim, lastCall, storeVars, startups, busy, sawIndex, failCause>>
    /\ lastSearch' = NoSearch

\* __populate_sample_data, the HSET call.
PopulateHSet(i) ==
    /\ pc[i] = "populate_hset"
    /\ \E reached \in BOOLEAN :
        IF ~reached
        THEN GoToRow(i, ExceptContinue(row[i]), "failed") /\ UNCHANGED <<hashes, writes, encodes>>
        ELSE /\ hashes' = HSet(hashes, KeyOf(row[i]), mapping[i])
             /\ writes' = [writes EXCEPT ![KeyOf(row[i])] = @ + 1]
             /\ GoToRow(i, row[i] + 1, "written")
             /\ UNCHANGED encodes
    /\ UNCHANGED <<dataset, encoderDim, lastCall, index, created, startups, busy, sawIndex, failCause>>
    /\ lastSearch' = NoSearch

\* A request: find_similar_molecules(query_embedding, embed_dim, k).
\* A request changes nothing but lastSearch, so one that follows another
\* request directly reaches no state that this one does not: it is left out.
Search(i) ==
    /\ pc[i] = "ready"
    /\ lastSearch = NoSearch
    /\ \E in \in SearchInputs, k \in QueryKs :
        LET query_embedding ==
                get_molecular_embedding(in[1], in[2], CHOOSE a \in OracleAnswers(encoderDim) : a # "raise").value
            embed_dim == in[3]
        IN  \E results \in FtSearch(index, hashes, KnnQuery(k, embed_dim), tobytes(query_embedding))
                            \cup {Raise("ConnectionError")} :
                lastSearch' = [called |-> TRUE,
                               query_embedding |-> query_embedding,
                               embed_dim |-> embed_dim,
                               k |-> k,
                               results |-> results,
                               returned |-> find_similar_molecules(results)]
    /\ UNCHANGED <<dataset, encoderDim, lastCall, storeVars, ingestVars, pc, startups, busy, sawIndex, failCause>>

Next ==
    \E i \in Instances :
        \/ Start(i)
        \/ InitializeModel(i)
        \/ InitializeRedis(i)
        \/ CreateIndexInfo(i)
        \/ CreateIndexCreate(i)
        \/ PopulateExists(i)
        \/ PopulateEmbed(i)
        \/ PopulateHSet(i)
        \/ Search(i)

Spec == Init /\ [][Next]_vars

(***************************************************************************)
(* Single calls of the methods of a service that is up: the second         *)
(* specification.  The service is instance "a", constructed against an     *)
(* empty store; its ingestion stored every row or (the store failing)      *)
(* none.  The calls change nothing of the service, so a call that follows  *)
(* another reaches no state that a first call does not: each behaviour     *)
(* makes one call.                                                         *)
(***************************************************************************)
ServingDataset == <<Row("CCO", "Ethanol", "Alcohol"), Row("CC(C)O", "Isopropanol", "Alcohol")>>

\* The hashes an ingestion of ServingDataset stores, no record failing.
PopulatedHashes(size) ==
    [key \in Keys |->
        IF \E r \in 1..Len(ServingDataset) : key = molecule_index_prefix(ServingDataset[r]["smiles"])
        THEN LET rowdict == CHOOSE rd \in {ServingDataset[r] : r \in 1..Len(ServingDataset)} :
                                key = molecule_index_prefix(rd["smiles"])
                 answer == CHOOSE a \in OracleAnswers(size) : a # "raise"
             IN  Mapping(rowdict, get_molecular_embedding(rowdict["smiles"], EMBEDDING_DIMENSION, answer).value)
        ELSE NoHash]

\* The arguments of the calls.
CallSmiles == {"CCO", "OCC", "CC(C)O", "CCCO", "not a molecule"}
CallDims == {-1, 0, 1, 2, 3, 4, 5}
Coordinates == {-2, 0, 1}
RawVectors ==
    LET nums == UNION {[1..n -> Coordinates] : n \in 0..MaxRawLen}
    IN  {[num |-> v, den2 |-> 1] : v \in nums}
            \cup {[num |-> v, den2 |-> SumSq(v)] : v \in {w \in nums : SumSq(w) > 1}}

InitCalls ==
    /\ dataset = ServingDataset
    /\ encoderDim \in {EMBEDDING_DIMENSION, EMBEDDING_DIMENSION - 1}
    /\ lastCall = NoCall
    /\ index = IndexSchema
    /\ \E stored \in BOOLEAN :
        /\ hashes = IF stored THEN PopulatedHashes(encoderDim) ELSE [key \in Keys |-> NoHash]
        /\ outcome = [i \in Instances |->
                        IF i = "a" THEN [r \in Rows |-> IF stored THEN "written" ELSE "failed"]
                        ELSE <<>>]
        /\ encodes = [i \in Instances |-> IF i = "a" /\ stored THEN 1 ELSE 0]
        /\ writes = [key \in Keys |-> IF stored /\ key \in DatasetKeys THEN 1 ELSE 0]
    /\ pc = [i \in Instances |-> IF i = "a" THEN "ready" ELSE "down"]
    /\ startups = 1
    /\ busy = [i \in Instances |-> 0]
    /\ row = [i \in Instances |-> 0]
    /\ mapping = [i \in Instances |-> NoMapping]
    /\ lastSearch = NoSearch
    /\ sawIndex = [i \in Instances |-> FALSE]
    /\ failCause = [i \in Instances |-> "none"]
    /\ fullAtStart = [i \in Instances |-> FALSE]
    /\ afterIngest = [i \in Instances |-> FALSE]
    /\ ingested = TRUE
    /\ created = 1

serviceVars == <<dataset, encoderDim, index, hashes, pc, startups, busy, row, mapping,
                 lastSearch, sawIndex, failCause, outcome, encodes, fullAtStart,
                 afterIngest, ingested, writes, created>>

\* A call of get_molecular_embedding(smiles, embed_dim).
CallGetMolecularEmbedding ==
    /\ pc["a"] = "ready"
    /\ lastCall = NoCall
    /\ \E smiles \in CallSmiles, embed_dim \in CallDims, answer \in OracleAnswers(encoderDim) :
        LET call == MolecularEmbeddingCall(smiles, embed_dim, answer)
        IN  lastCall' = [fn |-> "get_molecular_embedding",
                         smiles |-> smiles,
                         embed_dim |-> embed_dim,
                         encoded |-> call.encoded,
                         returned |-> call.result]
    /\ UNCHANGED serviceVars

\* A call of _truncate_and_normalize_embedding(embedding, embed_dim), with
\* a positive embed_dim.
CallTruncateAndNormalize ==
    /\ pc["a"] = "ready"
    /\ lastCall = NoCall
    /\ \E embedding \in RawVectors, embed_dim \in 1..(MaxRawLen + 1) :
        lastCall' = [fn |-> "_truncate_and_normalize_embedding",
                     embedding |-> embedding,
                     embed_dim |-> embed_dim,
                     returned |-> Return(truncate_and_normalize_embedding(embedding, embed_dim))]
    /\ UNCHANGED serviceVars

(***************************************************************************)
(* App (src/src/app.py)                                                    *)
(***************************************************************************)
\* A faulty variant: nothing is stripped.
strip_nothing(s) == s

\* str.strip(), on the strings of the model.
strip(s) ==
    CASE s = "   " -> ""
      [] s = " CCO " -> "CCO"
      [] OTHER -> s

\* ndarray.tolist(): the list of the coordinates, each a number.
tolist(e) == [j \in 1..Len(e.num) |-> [n |-> e.num[j], d2 |-> e.den2]]

\* The record of a call made by a method: what was called, with which
\* arguments, and what came of it.
Called(fn, args, result) == [fn |-> fn, args |-> args, result |-> result]

\* A faulty variant: no try/except: an exception of the service propagates.
pipeline_unguarded(smiles, embed_dim, embedding, neighbors) ==
    IF smiles = "" \/ strip(smiles) = ""
    THEN [calls |-> <<>>,
          returned |-> Return(<<<<>>, <<>>, "Please provide a valid SMILES string">>)]
    ELSE LET first == Called("get_molecular_embedding", <<smiles, embed_dim>>, embedding)
         IN  IF embedding.raised
             THEN [calls |-> <<first>>, returned |-> embedding]
             ELSE [calls |-> <<first, Called("find_similar_molecules",
                                            <<embedding.value, embed_dim>>, neighbors)>>,
                   returned |-> Return(<<tolist(embedding.value), neighbors.value,
                                        "Search completed successfully">>)]

\* A faulty variant: the search is made for the native dimension.
pipeline_native_dimension(smiles, embed_dim, embedding, neighbors) ==
    IF smiles = "" \/ strip(smiles) = ""
    THEN [calls |-> <<>>,
          returned |-> Return(<<<<>>, <<>>, "Please provide a valid SMILES string">>)]
    ELSE LET first == Called("get_molecular_embedding", <<smiles, embed_dim>>, embedding)
         IN  IF embedding.raised
             THEN [calls |-> <<first>>,
                   returned |-> Return(<<<<>>, <<>>, "Search failed: " \o embedding.value>>)]
             ELSE [calls |-> <<first, Called("find_similar_molecules",
                                            <<embedding.value, EMBEDDING_DIMENSION>>, neighbors)>>,
                   returned |-> Return(<<tolist(embedding.value), neighbors.value,
                                        "Search completed successfully">>)]

\* App.molecule_similarity_search_pipeline: the calls it makes of the
\* service, in order, and what it returns.  `embedding` is what
\* get_molecular_embedding does when called, `neighbors` what
\* find_similar_molecules does.
molecule_similarity_search_pipeline(smiles, embed_dim, embedding, neighbors) ==
    IF smiles = "" \/ strip(smiles) = ""
    THEN [calls |-> <<>>,
          returned |-> Return(<<<<>>, <<>>, "Please provide a valid SMILES string">>)]
    ELSE LET first == Called("get_molecular_embedding", <<smiles, embed_dim>>, embedding)
         IN  IF embedding.raised
             THEN [calls |-> <<first>>,
                   returned |-> Return(<<<<>>, <<>>, "Search failed: " \o embedding.value>>)]
             ELSE LET second == Called("find_similar_molecules",
                                       <<embedding.value, embed_dim>>, neighbors)
                  IN  IF neighbors.raised
                      THEN [calls |-> <<first, second>>,
                            returned |-> Return(<<<<>>, <<>>, "Search failed: " \o neighbors.value>>)]
                      ELSE [calls |-> <<first, second>>,
                            returned |-> Return(<<tolist(embedding.value), neighbors.value,
                                                 "Search completed successfully">>)]

\* App._draw_molecule_grid: the image of the molecules, or an exception
\* of the drawing library.
draw_molecule_grid(similar, drawn) ==
    IF drawn THEN Return([grid |-> [j \in 1..Len(similar) |-> similar[j].smiles]])
    ELSE Raise("DrawError")

\* App.handle_search: the calls it makes and what it returns; `pipeline`
\* is the run of molecule_similarity_search_pipeline when called.
handle_search(smiles, embed_dim, pipeline, drawn) ==
    IF strip(smiles) = ""
    THEN [calls |-> <<>>,
          returned |-> Return(<<<<>>, <<>>, None,
                               "Please draw a molecule or enter a SMILES string">>)]
    ELSE LET first == Called("molecule_similarity_search_pipeline",
                             <<smiles, embed_dim>>, pipeline.returned)
         IN  IF pipeline.returned.raised
             THEN [calls |-> <<first>> \o pipeline.calls, returned |-> pipeline.returned]
             ELSE LET got == pipeline.returned.value
                      img == draw_molecule_grid(got[2], drawn)
                      second == Called("_draw_molecule_grid", <<got[2]>>, img)
                  IN  [calls |-> <<first>> \o pipeline.calls \o <<second>>,
                       returned |-> IF img.raised THEN img
                                    ELSE Return(<<got[1], got[2], img.value, got[3]>>)]

AppSmiles == {"", "   ", "CCO", " CCO ", "OCC", "not a molecule"}

\* What the store answers to the search of find_similar_molecules(embedding,
\* embed_dim), k being HNSW_K; no search is made for an embedding that was
\* not returned.
SearchAnswers(embedding, embed_dim) ==
    IF embedding.raised THEN {Raise("ConnectionError")}
    ELSE FtSearch(index, hashes, KnnQuery(HNSW_K, embed_dim), tobytes(embedding.value))
            \cup {Raise("ConnectionError")}

\* A call of molecule_similarity_search_pipeline(smiles, embed_dim); the
\* answers of the store to the searches made are kept in `store`.
CallPipeline ==
    /\ pc["a"] = "ready"
    /\ lastCall = NoCall
    /\ \E smiles \in AppSmiles, embed_dim \in CallDims, answer \in OracleAnswers(encoderDim) :
        LET embedding == get_molecular_embedding(smiles, embed_dim, answer)
        IN  \E results \in SearchAnswers(embedding, embed_dim) :
                LET run == molecule_similarity_search_pipeline(
                                smiles, embed_dim, embedding, find_similar_molecules(results))
                IN  lastCall' = [fn |-> "molecule_similarity_search_pipeline",
                                 smiles |-> smiles,
                                 embed_dim |-> embed_dim,
                                 calls |-> run.calls,
                                 store |-> IF Len(run.calls) = 2 THEN <<results>> ELSE <<>>,
                                 returned |-> run.returned]
    /\ UNCHANGED serviceVars

\* A call of handle_search(smiles, embed_dim).
CallHandleSearch ==
    /\ pc["a"] = "ready"
    /\ lastCall = NoCall
    /\ \E smiles \in AppSmiles, embed_dim \in CallDims, answer \in OracleAnswers(encoderDim),
          drawn \in BOOLEAN :
        LET embedding == get_molecular_embedding(smiles, embed_dim, answer)
        IN  \E results \in SearchAnswers(embedding, embed_dim) :
                LET pipeline == molecule_similarity_search_pipeline(
                                    smiles, embed_dim, embedding, find_similar_molecules(results))
                    run == handle_search(smiles, embed_dim, pipeline, drawn)
                IN  lastCall' = [fn |-> "handle_search",
                                 smiles |-> smiles,
                                 embed_dim |-> embed_dim,
                                 calls |-> run.calls,
                                 returned |-> run.returned]
    /\ UNCHANGED serviceVars

NextCalls ==
    \/ CallGetMolecularEmbedding
    \/ CallTruncateAndNormalize
    \/ CallPipeline
    \/ CallHandleSearch

SpecCalls == InitCalls /\ [][NextCalls]_vars

(***************************************************************************)
(* Properties.                                                             *)
(***************************************************************************)
\* What became of the rows in instance i's current ingestion run.
WroteARecord(i) == \E r \in DOMAIN outcome[i] : outcome[i][r] = "written"
StoredKeys == {key \in Keys : Exists(hashes, key)}

\* C1 (as claimed): an ingestion run that begins after an ingestion run of
\* the same dataset has completed performs no record write at all.
C1_SecondRunWritesNothing ==
    \A i \in Instances : afterIngest[i] => ~WroteARecord(i)

\* C1 (amended): a record whose key is stored when the run checks it is
\* skipped (the run goes on to embed a record only when its key is absent),
\* and an ingestion run that begins when every key of the dataset is stored
\* (as after a run in which no record failed) performs no record write at
\* all.
C1_RunOnFullStoreWritesNothing ==
    /\ [](\A i \in Instances :
            fullAtStart[i] =>
                \A r \in DOMAIN outcome[i] : outcome[i][r] \in {"pending", "skipped", "failed"})
    /\ [][\A i \in Instances :
            (pc[i] = "populate_exists" /\ Exists(hashes, KeyOf(row[i]))) =>
                pc'[i] \notin {"populate_embed", "populate_hset"}]_vars

C1_Witness ==
    \E i \in Instances :
        /\ afterIngest[i] /\ fullAtStart[i] /\ pc[i] = "ready"
        /\ \A r \in Rows : outcome[i][r] = "skipped"

\* C2: the ingestion loop neither raises nor stops at a failed record: when
\* it ends every row has been processed, and the key of every row whose
\* processing did not fail is stored.
C2_PartialFailureIsolation ==
    \A i \in Instances :
        /\ pc[i] = "failed" => outcome[i] = <<>>
        /\ pc[i] = "ready" =>
            \A r \in Rows :
                /\ outcome[i][r] # "pending"
                /\ outcome[i][r] # "failed" => Exists(hashes, KeyOf(r))

C2_Witness ==
    \E i \in Instances :
        /\ pc[i] = "ready"
        /\ outcome[i][1] = "failed"
        /\ outcome[i][2] = "written"
        /\ ~Exists(hashes, KeyOf(1))

\* C3: every stored key holds the embedding field of every supported
\* dimension, or of none.
EmbeddingDimsOf(key) ==
    {d \in SupportedDims : embedding_field_name(d) \in DOMAIN hashes[key]}

C3_AllOrNothing ==
    \A key \in Keys : EmbeddingDimsOf(key) \in {{}, SupportedDims}

C3_Witness ==
    \E i \in Instances : \E r \in DOMAIN outcome[i] :
        /\ outcome[i][r] = "failed"
        /\ ~Exists(hashes, KeyOf(r))
        /\ \E key \in Keys : EmbeddingDimsOf(key) = SupportedDims

\* C4: once a record is stored under a key, no step changes or deletes the
\* fields stored under that key.
C4_WriteOnce ==
    [][\A key \in Keys : Exists(hashes, key) => hashes'[key] = hashes[key]]_vars

\* C5: an instance that found the index at startup never calls create_index,
\* the index is created at most once, and a defined index never changes.
C5_CreateIfAbsent ==
    /\ [](\A i \in Instances : pc[i] = "index_create" => ~sawIndex[i])
    /\ [](created <= 1)
    /\ [][index # NoIndex => index' = index]_vars

C5_Witness ==
    \E i \in Instances : sawIndex[i] /\ pc[i] = "ready" /\ created = 1 /\ startups = MaxStartups

\* C6: no constructor raises because create_index was rejected with
\* "Index already exists"; that instance goes on to the ingestion.
C6_ConcurrentCreateSafe ==
    \A i \in Instances : ~(pc[i] = "failed" /\ failCause[i] = "index_exists")

\* C7: each key is written at most once, by all instances together.
C7_NoDuplicateWrite ==
    \A key \in Keys : writes[key] <= 1

\* C8: find_similar_molecules never raises; it returns the empty list when
\* the store's search raises, and otherwise one entry per document found, in
\* the store's order, with the document's smiles, name and properties and
\* its score as a number.
C8_SearchNeverRaises ==
    lastSearch.called =>
        /\ ~lastSearch.returned.raised
        /\ lastSearch.results.raised => lastSearch.returned.value = <<>>
        /\ ~lastSearch.results.raised =>
            /\ Len(lastSearch.returned.value) = Len(lastSearch.results.value)
            /\ \A j \in 1..Len(lastSearch.results.value) :
                LET doc == lastSearch.results.value[j]
                    got == lastSearch.returned.value[j]
                IN  /\ DOMAIN got = {"smiles", "name", "properties", "score"}
                    /\ got.smiles = hashes[doc.id].smiles
                    /\ got.name = hashes[doc.id].name
                    /\ got.properties = hashes[doc.id].properties
                    /\ got.score = CosineDistance(
                            tobytes(lastSearch.query_embedding),
                            hashes[doc.id][embedding_field_name(lastSearch.embed_dim)])

C8_Witness ==
    /\ lastSearch.called
    /\ lastSearch.results.raised
    /\ lastSearch.results.value = "ConnectionError"
    /\ lastSearch.embed_dim \in SupportedDims
    /\ StoredKeys # {}
    /\ lastSearch.returned = Return(<<>>)

\* C9: a search for a dimension that is not supported returns the empty
\* list and does not raise.
C9_UnsupportedDimension ==
    (lastSearch.called /\ lastSearch.embed_dim \notin SupportedDims) =>
        /\ ~lastSearch.returned.raised
        /\ lastSearch.returned.value = <<>>

C9_Witness ==
    /\ lastSearch.called
    /\ lastSearch.embed_dim \notin SupportedDims
    /\ lastSearch.results = Raise("ResponseError: unknown field")
    /\ Cardinality(StoredKeys) = 2
    /\ lastSearch.returned = Return(<<>>)

\* Whether stored vector x is more similar to the query vector q than stored
\* vector y is: cos(q, x) > cos(q, y), decided exactly (the cosine of q and
\* x is Dot(q, x) / (|q| |x|); a zero vector has cosine 0 with every vector).
CosNum(q, x) == IF SumSq(x) = 0 THEN 0 ELSE Dot(q, x)
CosDen2(x) == IF SumSq(x) = 0 THEN 1 ELSE SumSq(x)
MoreSimilar(q, x, y) ==
    LET a == CosNum(q, x)
        b == CosNum(q, y)
        l == a * a * CosDen2(y)
        r == b * b * CosDen2(x)
    IN  CASE a >= 0 /\ b < 0 -> TRUE
          [] a < 0 /\ b >= 0 -> FALSE
          [] a >= 0 /\ b >= 0 -> l > r
          [] OTHER -> l < r

\* The vector stored for the j-th entry of the list the search returned.
StoredVectorOf(entry) ==
    hashes[molecule_index_prefix(entry.smiles)][embedding_field_name(lastSearch.embed_dim)].blob

\* C10: with k not larger than the number of indexed records, no entry of
\* the returned list is more similar to the query than an earlier entry.
C10_SearchOrdering ==
    (/\ lastSearch.called
     /\ ~lastSearch.results.raised
     /\ ~lastSearch.returned.raised
     /\ lastSearch.k <= Cardinality(StoredKeys)) =>
        \A a, b \in 1..Len(lastSearch.returned.value) :
            a < b => ~MoreSimilar(lastSearch.query_embedding.num,
                                  StoredVectorOf(lastSearch.returned.value[b]),
                                  StoredVectorOf(lastSearch.returned.value[a]))

C10_Witness ==
    /\ lastSearch.called
    /\ ~lastSearch.results.raised
    /\ lastSearch.k = 2
    /\ Len(lastSearch.returned.value) = 2
    /\ MoreSimilar(lastSearch.query_embedding.num,
                   StoredVectorOf(lastSearch.returned.value[1]),
                   StoredVectorOf(lastSearch.returned.value[2]))

\* C11: the connection step gives up (the constructor raises) before it has
\* been answered "still loading" as many times as the store may answer so:
\* the number of its retries is bounded whatever the store does.
C11_ConnectionRetriesBounded ==
    \A i \in Instances : busy[i] < MaxBusyAnswers

\* The order of the constructor's calls: the steps an instance's constructor
\* may take from each call (a raise ends it; a new process starts afresh).
ConstructorOrder ==
    { <<"down", "model">>, <<"ready", "model">>, <<"failed", "model">>,
      <<"model", "redis">>, <<"model", "failed">>,
      <<"redis", "index_info">>, <<"redis", "failed">>,
      <<"index_info", "index_create">>, <<"index_info", "populate_exists">>,
      <<"index_info", "failed">>,
      <<"index_create", "populate_exists">>, <<"index_create", "failed">>,
      <<"populate_exists", "populate_embed">>, <<"populate_exists", "ready">>,
      <<"populate_embed", "populate_hset">>, <<"populate_embed", "populate_exists">>,
      <<"populate_embed", "ready">>,
      <<"populate_hset", "populate_exists">>, <<"populate_hset", "ready">> }

Ingesting(i) == pc[i] \in {"populate_exists", "populate_embed", "populate_hset"}

\* C12: the constructor runs model load, store connection, index
\* check/creation and ingestion in this order; when the model load, the
\* store connection or the index creation raises, the constructor raises
\* and none of its later steps runs (a create_index that the store must
\* reject ends the constructor, and a failed constructor has processed no
\* row); ingestion runs, and records are stored, only when the index exists.
C12_FailuresFatalAndOrdered ==
    /\ [][\A i \in Instances :
            /\ pc'[i] # pc[i] => <<pc[i], pc'[i]>> \in ConstructorOrder
            /\ (pc[i] = "index_create" /\ index # NoIndex) => pc'[i] \in {"index_create", "failed"}
            /\ (pc[i] = "failed" /\ pc'[i] = "failed") =>
                    /\ failCause'[i] = failCause[i]
                    /\ outcome'[i] = outcome[i]]_vars
    /\ [](\A i \in Instances :
            /\ pc[i] = "failed" =>
                    /\ failCause[i] \in {"model", "redis", "index_info", "index_create", "index_exists"}
                    /\ outcome[i] = <<>>
            /\ Ingesting(i) => index # NoIndex)
    /\ [](StoredKeys # {} => index # NoIndex)

C12_Witness ==
    \E i, j \in Instances :
        /\ pc[i] = "failed" /\ failCause[i] = "index_exists" /\ outcome[i] = <<>>
        /\ pc[j] = "ready" /\ WroteARecord(j)
        /\ index # NoIndex

\* C13: get_molecular_embedding called with embed_dim <= 0 raises ValueError,
\* whatever the string, and model.encode has not been called.
C13_NonPositiveDimensionRejected ==
    (lastCall.fn = "get_molecular_embedding" /\ lastCall.embed_dim <= 0) =>
        /\ lastCall.returned = Raise("ValueError")
        /\ lastCall.encoded = <<>>

C13_Witness ==
    /\ lastCall.fn = "get_molecular_embedding"
    /\ lastCall.embed_dim = 0
    /\ lastCall.smiles = "CCO"
    /\ lastCall.returned.raised
    /\ lastCall.encoded = <<>>

\* C14: for a vector raw and embed_dim d > 0 the normalizer returns the
\* first m = min(d, len(raw)) coordinates of raw, all divided by the norm of
\* these m coordinates (so truncated first), or by 1 when they are all zero.
\* (The vector num / sqrt(den2) divided by its norm sqrt(SumSq(num) / den2)
\* is num / sqrt(SumSq(num)).)
C14_NormalizerContract ==
    lastCall.fn = "_truncate_and_normalize_embedding" =>
        LET raw == lastCall.embedding
            d == lastCall.embed_dim
            out == lastCall.returned.value
            m == IF d < Len(raw.num) THEN d ELSE Len(raw.num)
            prefix == SubSeq(raw.num, 1, m)
        IN  /\ ~lastCall.returned.raised
            /\ Len(out.num) = m
            /\ out.num = prefix
            /\ IF SumSq(prefix) = 0
               THEN out.den2 = raw.den2 /\ \A j \in 1..m : out.num[j] = 0
               ELSE out.den2 = SumSq(prefix)

C14_Witness ==
    /\ lastCall.fn = "_truncate_and_normalize_embedding"
    /\ lastCall.embedding = [num |-> <<0, 0, 1, -2>>, den2 |-> 1]
    /\ lastCall.embed_dim = 2
    /\ lastCall.returned.value = [num |-> <<0, 0>>, den2 |-> 1]

\* The empty and the whitespace-only strings among the inputs.
BlankSmiles == {"", "   "}

PipelineCalled == lastCall.fn = "molecule_similarity_search_pipeline"

\* C15 (as claimed): for every non-blank input the pipeline calls
\* get_molecular_embedding(smiles, embed_dim), then find_similar_molecules
\* with the embedding returned and embed_dim, each once, and returns the
\* embedding as a list, the neighbors and "Search completed successfully".
C15_PipelineCallsBoth ==
    (PipelineCalled /\ lastCall.smiles \notin BlankSmiles) =>
        /\ Len(lastCall.calls) = 2
        /\ lastCall.calls[1].fn = "get_molecular_embedding"
        /\ lastCall.calls[1].args = <<lastCall.smiles, lastCall.embed_dim>>
        /\ lastCall.calls[2].fn = "find_similar_molecules"
        /\ ~lastCall.calls[1].result.raised
        /\ lastCall.calls[2].args = <<lastCall.calls[1].result.value, lastCall.embed_dim>>
        /\ ~lastCall.returned.raised
        /\ lastCall.returned.value[3] = "Search completed successfully"

\* C15 (amended): for every non-blank input the pipeline calls
\* get_molecular_embedding(smiles, embed_dim) first, once; when that call
\* returns, it then calls find_similar_molecules once, with the embedding
\* returned and the same embed_dim, and returns the embedding as a list,
\* the neighbors returned and "Search completed successfully".
C15_PipelineCallsBothOnSuccess ==
    (PipelineCalled /\ lastCall.smiles \notin BlankSmiles) =>
        /\ Len(lastCall.calls) >= 1
        /\ lastCall.calls[1].fn = "get_molecular_embedding"
        /\ lastCall.calls[1].args = <<lastCall.smiles, lastCall.embed_dim>>
        /\ \A j \in 2..Len(lastCall.calls) : lastCall.calls[j].fn # "get_molecular_embedding"
        /\ ~lastCall.calls[1].result.raised =>
            /\ Len(lastCall.calls) = 2
            /\ lastCall.calls[2].fn = "find_similar_molecules"
            /\ lastCall.calls[2].args = <<lastCall.calls[1].result.value, lastCall.embed_dim>>
            /\ ~lastCall.calls[2].result.raised
            /\ lastCall.returned =
                    Return(<<[j \in 1..Len(lastCall.calls[1].result.value.num) |->
                                [n |-> lastCall.calls[1].result.value.num[j],
                                 d2 |-> lastCall.calls[1].result.value.den2]],
                             lastCall.calls[2].result.value,
                             "Search completed successfully">>)

C15_Witness ==
    /\ PipelineCalled
    /\ lastCall.smiles = " CCO "
    /\ lastCall.embed_dim = 2
    /\ Len(lastCall.calls) = 2
    /\ Len(lastCall.calls[2].result.value) = 2
    /\ lastCall.returned.value[2] = lastCall.calls[2].result.value
    /\ lastCall.returned.value[3] = "Search completed successfully"

\* C16: for an empty or whitespace-only input the pipeline returns
\* ([], [], "Please provide a valid SMILES string") and handle_search returns
\* ([], [], None, "Please draw a molecule or enter a SMILES string"); neither
\* calls anything (not the service, not the pipeline).
C16_BlankInputRejected ==
    lastCall.fn \in {"molecule_similarity_search_pipeline", "handle_search"} =>
        (lastCall.smiles \in BlankSmiles =>
            /\ lastCall.calls = <<>>
            /\ lastCall.fn = "molecule_similarity_search_pipeline" =>
                    lastCall.returned =
                        Return(<<<<>>, <<>>, "Please provide a valid SMILES string">>)
            /\ lastCall.fn = "handle_search" =>
                    lastCall.returned =
                        Return(<<<<>>, <<>>, None,
                                 "Please draw a molecule or enter a SMILES string">>))

C16_Witness ==
    /\ lastCall.fn = "handle_search"
    /\ lastCall.smiles = "   "
    /\ lastCall.embed_dim = 2
    /\ lastCall.calls = <<>>
    /\ lastCall.returned.value[3] = None

\* C17: the pipeline never raises; when get_molecular_embedding raises,
\* find_similar_molecules is not called and the pipeline returns
\* ([], [], "Search failed: " and the exception's message); likewise when
\* find_similar_molecules raises.
C17_PipelineNeverRaises ==
    PipelineCalled =>
        /\ ~lastCall.returned.raised
        /\ \A j \in 1..Len(lastCall.calls) :
            lastCall.calls[j].result.raised =>
                /\ Len(lastCall.calls) = j
                /\ lastCall.returned =
                        Return(<<<<>>, <<>>, "Search failed: " \o lastCall.calls[j].result.value>>)

C17_Witness ==
    /\ PipelineCalled
    /\ lastCall.smiles = "CCO"
    /\ lastCall.embed_dim = 2
    /\ Len(lastCall.calls) = 1
    /\ lastCall.calls[1].result = Raise("RuntimeError")
    /\ lastCall.returned = Return(<<<<>>, <<>>, "Search failed: RuntimeError">>)

\* The vector model.encode returns for a row's smiles in this deployment.
OracleVectorOf(smiles) ==
    LET canonical == canonicalize_smiles(smiles)
        s == IF canonical = None THEN smiles ELSE canonical
    IN  model_encode(s, CHOOSE a \in OracleAnswers(encoderDim) : a # "raise").value

\* The first d coordinates of v (all of them when v has fewer).
Prefix(v, d) == SubSeq(v, 1, IF d < Len(v) THEN d ELSE Len(v))

\* The row whose processing instance i's loop has ended last (0: none).
RowLeft(i) ==
    CASE pc[i] = "ready" -> Len(dataset)
      [] pc[i] = "populate_exists" -> row[i] - 1
      [] OTHER -> 0

\* C18: in an ingestion run model.encode is called once for a record found
\* absent (before its mapping is built and written) and not at all for a
\* record found present, and the embeddings of all the dimensions written
\* for a record are the normalized prefixes of that one vector: the
\* embedding of a smaller dimension is made of a prefix of the coordinates
\* the embedding of a larger one is made of.
C18_OneOracleCallPerRecord ==
    /\ [](\A i \in Instances :
            /\ pc[i] = "populate_embed" => encodes[i] = 0
            /\ pc[i] = "populate_hset" =>
                    /\ encodes[i] = 1
                    /\ \A d \in SupportedDims :
                        mapping[i][embedding_field_name(d)].blob =
                            Prefix(OracleVectorOf(dataset[row[i]]["smiles"]).num, d)
            /\ RowLeft(i) > 0 =>
                    /\ outcome[i][RowLeft(i)] = "skipped" => encodes[i] = 0
                    /\ outcome[i][RowLeft(i)] = "written" => encodes[i] = 1
                    /\ outcome[i][RowLeft(i)] = "failed" => encodes[i] <= 1)
    /\ [][\A i \in Instances :
            /\ (pc[i] = "populate_embed" /\ pc'[i] # "populate_embed") => encodes'[i] = 1
            /\ (pc[i] = "populate_exists" /\ Exists(hashes, KeyOf(row[i]))
                    /\ <<pc'[i], row'[i]>> # <<pc[i], row[i]>>) =>
                        /\ encodes'[i] = 0
                        /\ pc'[i] # "populate_embed"]_vars
    /\ [](\A key \in Keys : \A d1, d2 \in EmbeddingDimsOf(key) :
            d1 < d2 =>
                hashes[key][embedding_field_name(d1)].blob =
                    Prefix(hashes[key][embedding_field_name(d2)].blob, d1))

C18_Witness ==
    \E i \in Instances :
        /\ pc[i] = "populate_hset"
        /\ row[i] = 2
        /\ outcome[i][1] = "skipped"
        /\ encodes[i] = 1
        /\ mapping[i][embedding_field_name(2)].blob =
                Prefix(mapping[i][embedding_field_name(4)].blob, 2)

\* C19: every vector stored under field embedding_<d> has exactly d
\* coordinates, and so has the vector field declared for d in the index,
\* whatever vector model.encode returns.
C19_StoredVectorsHaveFieldDimension ==
    /\ \A key \in Keys : \A d \in EmbeddingDimsOf(key) :
            Len(hashes[key][embedding_field_name(d)].blob) = d
    /\ index # NoIndex =>
            \A d \in SupportedDims :
                /\ embedding_field_name(d) \in DOMAIN index.vectors
                /\ index.vectors[embedding_field_name(d)] = d

\* The canonical form of a row's identifier (the string itself when it has
\* none).
CanonicalOf(r) ==
    LET canonical == canonicalize_smiles(dataset[r]["smiles"])
    IN  IF canonical = None THEN dataset[r]["smiles"] ELSE canonical

\* C20: the store key of a row is that of its canonical identifier: for
\* two rows of the dataset whose identifiers have the same canonical form at
\* most one record is stored (the records stored for them are under one
\* key).
C20_CanonicalKey ==
    \A r1, r2 \in Rows :
        (/\ CanonicalOf(r1) = CanonicalOf(r2)
         /\ Exists(hashes, KeyOf(r1))
         /\ Exists(hashes, KeyOf(r2))) => KeyOf(r1) = KeyOf(r2)

\* C21: when get_molecular_embedding returns and the store's search fails,
\* the pipeline returns the embedding as a list, no neighbors and "Search
\* completed successfully", which is also what it returns when the search
\* succeeds and finds nothing.
C21_FailedSearchInvisible ==
    (/\ PipelineCalled
     /\ Len(lastCall.store) = 1
     /\ lastCall.store[1].raised \/ lastCall.store[1] = Return(<<>>)) =>
        /\ Len(lastCall.calls) = 2
        /\ ~lastCall.calls[1].result.raised
        /\ lastCall.returned =
                Return(<<[j \in 1..Len(lastCall.calls[1].result.value.num) |->
                            [n |-> lastCall.calls[1].result.value.num[j],
                             d2 |-> lastCall.calls[1].result.value.den2]],
                         <<>>,
                         "Search completed successfully">>)

C21_Witness ==
    /\ PipelineCalled
    /\ lastCall.smiles = "CCO"
    /\ lastCall.embed_dim = 2
    /\ StoredKeys # {}
    /\ lastCall.store = <<Raise("ConnectionError")>>
    /\ lastCall.returned.value[2] = <<>>
    /\ lastCall.returned.value[3] = "Search completed successfully"

====
